---- MODULE Spec2Model ----
(***************************************************************************)
(* bustubx: the buffer-pool Page (src/bustubx/src/buffer/page.rs) and the  *)
(* HyperLogLog estimator (src/bustubx/src/primer/hyperloglog.rs).          *)
(*                                                                         *)
(* Spec    : one frame's Page under new / empty / destroy / replace and    *)
(*           the assignments callers make to its public fields.            *)
(* SpecHLL : one HyperLogLog<KeyType> under new / add_elem /               *)
(*           compute_cardinality, for both build profiles.                 *)
(***************************************************************************)
EXTENDS Integers, Sequences, FiniteSets

VARIABLES
    page,       \* the frame's Page: [page_id, data, pin_count, is_dirty]
    last,       \* the last Page operation and its arguments (history)
    build,      \* "debug" (overflow checks on) or "release" (wrapping)
    hstate,     \* "unbuilt" | "ok" | "panicked": the estimator object
    hll,        \* [n_bits, buckets, cardinality] of the estimator
    added,      \* keys passed to add_elem since construction (history)
    hlast       \* the last HyperLogLog operation and its arguments (history)

pageVars == <<page, last>>
hllVars == <<build, hstate, hll, added, hlast>>
vars == <<page, last, build, hstate, hll, added, hlast>>

(***************************************************************************)
(* Bounds of the model.                                                    *)
(***************************************************************************)
MaxPageId == 2      \* page identifiers 0..MaxPageId
MaxPin == 2         \* pin_count is driven up to MaxPin
MaxByte == 2        \* bytes written into a page: 0..MaxByte
NumKeys == 5        \* keys given to add_elem: 1..NumKeys
MaxBits == 3        \* HyperLogLog::new is called with n_bits up to MaxBits
NegBits == 2        \* ... and down to -NegBits

(***************************************************************************)
(* Page                                                                    *)
(***************************************************************************)
INVALID_PAGE_ID == 0
BUSTUBX_PAGE_SIZE == 4096

Offsets == 0..(BUSTUBX_PAGE_SIZE - 1)

\* A [u8; BUSTUBX_PAGE_SIZE] is held by its nonzero bytes: a function from
\* the offsets that hold a nonzero byte to that byte. Byte reads it.
Byte(data, i) == IF i \in DOMAIN data THEN data[i] ELSE 0

\* data[o] = b
SetByte(data, o, b) ==
    IF b = 0
    THEN [i \in DOMAIN data \ {o} |-> data[i]]
    ELSE [i \in DOMAIN data \cup {o} |-> IF i = o THEN b ELSE data[i]]

\* [0; BUSTUBX_PAGE_SIZE]: no offset holds a nonzero byte
ZeroData == [i \in {} |-> 0]

\* Page::new with a wrong dirty flag
Page_new_dirty(page_id) ==
    [page_id |-> page_id, data |-> ZeroData, pin_count |-> 0, is_dirty |-> TRUE]

Page_new(page_id) ==
    [page_id |-> page_id, data |-> ZeroData, pin_count |-> 0, is_dirty |-> FALSE]

Page_empty == Page_new(INVALID_PAGE_ID)

\* Page::destroy that forgets the pin count
Page_destroy_keeps_pin(self) ==
    [self EXCEPT !.page_id = 0, !.data = ZeroData, !.is_dirty = FALSE]

Page_destroy(self) ==
    [self EXCEPT !.page_id = 0,
                 !.data = ZeroData,
                 !.pin_count = 0,
                 !.is_dirty = FALSE]

\* Page::replace that forgets the dirty flag
Page_replace_keeps_dirty(self, other) ==
    [self EXCEPT !.page_id = other.page_id,
                 !.data = other.data,
                 !.pin_count = other.pin_count]

Page_replace(self, other) ==
    [self EXCEPT !.page_id = other.page_id,
                 !.data = other.data,
                 !.pin_count = other.pin_count,
                 !.is_dirty = other.is_dirty]

\* Offsets a caller writes at: the first and the last byte of the buffer.
WriteOffsets == {0, BUSTUBX_PAGE_SIZE - 1}

\* Pages a caller hands to replace: built by Page::new, then written through
\* the public fields.
OtherPages ==
    { [page_id |-> i, data |-> d, pin_count |-> p, is_dirty |-> b] :
        i \in 0..MaxPageId,
        d \in {ZeroData} \cup {SetByte(ZeroData, o, MaxByte) : o \in WriteOffsets},
        p \in 0..1,
        b \in BOOLEAN }

\* The history: the operation, its identifier and page arguments, and for
\* destroy and replace the page they acted on.
Op(name, id, other, was) ==
    [op |-> name, id |-> id, other |-> other, was |-> was]

InitPage ==
    /\ page = Page_empty
    /\ last = Op("empty", INVALID_PAGE_ID, Page_empty, Page_empty)

Empty ==
    /\ page' = Page_empty
    /\ last' = Op("empty", INVALID_PAGE_ID, Page_empty, Page_empty)
    /\ UNCHANGED hllVars

New(id) ==
    /\ page' = Page_new(id)
    /\ last' = Op("new", id, Page_empty, Page_empty)
    /\ UNCHANGED hllVars

Destroy ==
    /\ page' = Page_destroy(page)
    /\ last' = Op("destroy", page.page_id, Page_empty, page)
    /\ UNCHANGED hllVars

ReplaceWithNew(id) ==
    /\ page' = Page_replace(page, Page_new(id))
    /\ last' = Op("replace_new", id, Page_new(id), page)
    /\ UNCHANGED hllVars

Replace(other) ==
    /\ page' = Page_replace(page, other)
    /\ last' = Op("replace", other.page_id, other, page)
    /\ UNCHANGED hllVars

\* page.is_dirty = b: marking dirty on write, clearing after a flush
SetDirty(b) ==
    /\ page' = [page EXCEPT !.is_dirty = b]
    /\ last' = Op(IF b THEN "mark_dirty" ELSE "flush", page.page_id, Page_empty, Page_empty)
    /\ UNCHANGED hllVars

\* page.pin_count += 1
Pin ==
    /\ page.pin_count < MaxPin
    /\ page' = [page EXCEPT !.pin_count = @ + 1]
    /\ last' = Op("pin", page.page_id, Page_empty, Page_empty)
    /\ UNCHANGED hllVars

\* page.pin_count -= 1, which a caller does on a pinned page only
Unpin ==
    /\ page.pin_count > 0
    /\ page' = [page EXCEPT !.pin_count = @ - 1]
    /\ last' = Op("unpin", page.page_id, Page_empty, Page_empty)
    /\ UNCHANGED hllVars

\* page.data[o] = b
WriteData(o, b) ==
    /\ page' = [page EXCEPT !.data = SetByte(@, o, b)]
    /\ last' = Op("write", page.page_id, Page_empty, Page_empty)
    /\ UNCHANGED hllVars

NextPage ==
    \/ Empty
    \/ \E id \in 0..MaxPageId : New(id)
    \/ Destroy
    \/ \E id \in 0..MaxPageId : ReplaceWithNew(id)
    \/ \E other \in OtherPages : Replace(other)
    \/ \E b \in BOOLEAN : SetDirty(b)
    \/ Pin
    \/ Unpin
    \/ \E o \in WriteOffsets, b \in 0..MaxByte : WriteData(o, b)

(***************************************************************************)
(* HyperLogLog                                                             *)
(*                                                                         *)
(* A u64 is a function from bit positions 1..64 to {0, 1}, position 1 the  *)
(* most significant bit: its values do not fit TLC's integers.     *)
(***************************************************************************)
BITSET_CAPACITY == 64

Positions == 1..BITSET_CAPACITY

\* The u64 whose one bits are at the positions of S.
U64(S) == [i \in Positions |-> IF i \in S THEN 1 ELSE 0]

Keys == 1..NumKeys

\* DefaultHasher is a deterministic function of the key (SipHash with fixed
\* keys). Its values for the model's keys are fixed here, as the positions of
\* their one bits.
HashBits(val) ==
    CASE val = 1 -> {}
      [] val = 2 -> {64}
      [] val = 3 -> {2, 64}
      [] val = 4 -> {1}
      [] val = 5 -> {40}
      [] val = 6 -> {1, 2}
      [] val = 7 -> {3}
      [] OTHER -> {1, 3, 64}

calculate_hash(val) == U64(HashBits(val))

compute_binary(hash) == hash

\* u64::leading_zeros
leading_zeros(bset) ==
    IF \A i \in Positions : bset[i] = 0
    THEN BITSET_CAPACITY
    ELSE (CHOOSE i \in Positions :
            /\ bset[i] = 1
            /\ \A j \in 1..(i - 1) : bset[j] = 0) - 1

position_of_leftmost_one(bset) == BITSET_CAPACITY - leading_zeros(bset)

\* hash >> s for 0 <= s < 64: zeros come in from the left.
Shr(hash, s) == [i \in Positions |-> IF i <= s THEN 0 ELSE hash[i - s]]

\* A usize at or above 2^30 is past the end of every Vec of the model; all of
\* them are held as this one value.
IndexTooLarge == 2^30

RECURSIVE LowValue(_, _)
\* The value of bits i..64 of b.
LowValue(b, i) ==
    IF i > BITSET_CAPACITY THEN 0
    ELSE b[i] * 2^(BITSET_CAPACITY - i) + LowValue(b, i + 1)

\* `as usize` of a u64
AsUsize(b) ==
    IF \E i \in 1..(BITSET_CAPACITY - 30) : b[i] = 1
    THEN IndexTooLarge
    ELSE LowValue(b, BITSET_CAPACITY - 29)

\* The shift amount of add_elem, BITSET_CAPACITY - self.n_bits as u64.
ShiftAmount(n_bits) == BITSET_CAPACITY - n_bits

\* hash >> amount overflows when the amount is not below the width: a panic
\* with overflow checks (debug), the amount taken modulo the width without.
ShrOverflows(amount) == amount >= BITSET_CAPACITY

\* The bucket index add_elem computes when the shift does not panic.
BucketIndex(hash, n_bits) ==
    AsUsize(Shr(hash, ShiftAmount(n_bits) % BITSET_CAPACITY))

\* The max of add_elem replaced by a plain store
BucketUpdate_store(old, leading_zeroes) == leading_zeroes

\* self.buckets[index].max(leading_zeroes)
BucketUpdate(old, leading_zeroes) ==
    IF old >= leading_zeroes THEN old ELSE leading_zeroes

\* 1 << n_bits on an i32 overflows for a shift amount outside 0..31.
ShlOverflows(n_bits) == n_bits < 0 \/ n_bits >= 32

\* vec![0; len], indexed from 0
ZeroVec(len) == [i \in 0..(len - 1) |-> 0]

VecLen(v) == Cardinality(DOMAIN v)

\* The sum of 2^-x over the buckets, exactly: for each value e a bucket
\* holds, sum[e] buckets hold it and contribute 2^-e each.
HarmonicSum(buckets) ==
    [e \in {buckets[i] : i \in DOMAIN buckets} |->
        Cardinality({i \in DOMAIN buckets : buckets[i] = e})]

\* compute_cardinality stores floor(CONSTANT * m * m / sum), which ranges up
\* to 2^64 - 1. The model holds the estimate as the pair (m, sum) that
\* determines it.
Estimate(buckets) == [m |-> VecLen(buckets), sum |-> HarmonicSum(buckets)]

\* The `cardinality: 0` of the constructor.
ZeroCardinality == [m |-> 0, sum |-> [e \in {} |-> 0]]

\* floor(CONSTANT * m * m / sum) = 0 iff CONSTANT * m * m < sum. As sum <= m
\* and CONSTANT = 0.79402, that is m = 1 with its bucket at 0 (sum = 1).
IsZero(cardinality) ==
    \/ cardinality = ZeroCardinality
    \/ cardinality.m = 1 /\ 0 \in DOMAIN cardinality.sum

get_cardinality == hll.cardinality

NoHll == [n_bits |-> 0, buckets |-> ZeroVec(0), cardinality |-> ZeroCardinality]

\* The history: the operation, the n_bits the estimator was built with,
\* whether add_elem's key had been added before, and the panic if any.
HOp(name, n, again) == [op |-> name, n |-> n, again |-> again, panic |-> "none"]

InitHLL ==
    /\ build \in {"debug", "release"}
    /\ hstate = "unbuilt"
    /\ hll = NoHll
    /\ added = {}
    /\ hlast = HOp("none", 0, FALSE)

\* A panic unwinds out of the call: the estimator is gone.
Panic(op, why) ==
    /\ hstate' = "panicked"
    /\ hll' = NoHll
    /\ added' = {}
    /\ hlast' = [op EXCEPT !.panic = why]

\* HyperLogLog::new(n_bits): `1 << n_bits` first, then the fields in order,
\* n_bits.try_into().unwrap() before vec![0; num_buckets as usize].
HyperLogLog_new(n_bits) ==
    /\ IF build = "debug" /\ ShlOverflows(n_bits)
       THEN Panic(HOp("new", n_bits, FALSE), "attempt to shift left with overflow")
       ELSE IF n_bits < 0
       THEN Panic(HOp("new", n_bits, FALSE), "unwrap on TryFromIntError")
       ELSE IF n_bits % 32 = 31                     \* i32::MIN as usize
       THEN Panic(HOp("new", n_bits, FALSE), "capacity overflow")
       ELSE /\ hstate' = "ok"
            /\ hll' = [n_bits |-> n_bits,
                       buckets |-> ZeroVec(2^(n_bits % 32)),
                       cardinality |-> ZeroCardinality]
            /\ added' = {}
            /\ hlast' = HOp("new", n_bits, FALSE)
    /\ UNCHANGED <<build, pageVars>>

add_elem(val) ==
    /\ hstate = "ok"
    /\ LET hash == calculate_hash(val)
           binary == compute_binary(hash)
           leading_zeroes == position_of_leftmost_one(binary)
           index == BucketIndex(hash, hll.n_bits)
           op == HOp("add_elem", hlast.n, val \in added)
       IN  IF build = "debug" /\ ShrOverflows(ShiftAmount(hll.n_bits))
           THEN Panic(op, "attempt to shift right with overflow")
           ELSE IF index >= VecLen(hll.buckets)
           THEN Panic(op, "index out of bounds")
           ELSE /\ hll' = [hll EXCEPT !.buckets[index] =
                                         BucketUpdate(@, leading_zeroes)]
                /\ added' = added \cup {val}
                /\ hlast' = op
                /\ UNCHANGED hstate
    /\ UNCHANGED <<build, pageVars>>

compute_cardinality ==
    /\ hstate = "ok"
    /\ hll' = [hll EXCEPT !.cardinality = Estimate(hll.buckets)]
    /\ hlast' = HOp("compute_cardinality", hlast.n, FALSE)
    /\ UNCHANGED <<build, hstate, added, pageVars>>

NextHLL ==
    \/ \E n_bits \in (-NegBits)..MaxBits : HyperLogLog_new(n_bits)
    \/ \E val \in Keys : add_elem(val)
    \/ compute_cardinality

Init == InitPage /\ InitHLL

Spec == Init /\ [][NextPage]_vars

SpecHLL == Init /\ [][NextHLL]_vars

(***************************************************************************)
(* Claims about Page, checked under Spec.                                  *)
(***************************************************************************)

\* C1: the data of a page whose is_dirty flag is set is never replaced or
\* zeroed by replace or destroy: they leave the buffer of a dirty resident
\* page as it was, until a flush has cleared the flag.
C1_DirtyDataNeverOverwritten ==
    (/\ last.op \in {"destroy", "replace", "replace_new"}
     /\ last.was.page_id # INVALID_PAGE_ID
     /\ last.was.is_dirty)
        => page.data = last.was.data

\* C2: destroy on a resident page with pin_count > 0 is refused: page_id,
\* data, pin_count and is_dirty keep their prior values.
C2_PinnedDestroyRefused ==
    (/\ last.op = "destroy"
     /\ last.was.page_id # INVALID_PAGE_ID
     /\ last.was.pin_count > 0) =>
        /\ page.page_id = last.was.page_id
        /\ page.data = last.was.data
        /\ page.pin_count = last.was.pin_count
        /\ page.is_dirty = last.was.is_dirty

\* C3: after replace(Page::new(new_id)) the page has page_id = new_id, all
\* data bytes zero, pin_count = 0 and is_dirty = false, whatever it held
\* before; after replace(other) all four fields equal those of other.
C3_ReplaceLeavesNoResidue ==
    /\ last.op = "replace_new" =>
          /\ page.page_id = last.id
          /\ \A i \in Offsets : Byte(page.data, i) = 0
          /\ page.pin_count = 0
          /\ page.is_dirty = FALSE
    /\ last.op \in {"replace", "replace_new"} =>
          /\ page.page_id = last.other.page_id
          /\ \A i \in Offsets : Byte(page.data, i) = Byte(last.other.data, i)
          /\ page.pin_count = last.other.pin_count
          /\ page.is_dirty = last.other.is_dirty

\* A pinned, dirty, written page of another identity has been replaced by a
\* fresh page.
C3_Witness ==
    /\ last.op = "replace_new"
    /\ last.was.page_id # last.id
    /\ last.was.page_id # INVALID_PAGE_ID
    /\ last.was.pin_count > 0
    /\ last.was.is_dirty
    /\ \E i \in Offsets : Byte(last.was.data, i) # 0

\* C4: Page::empty() and, from every prior state, destroy() give
\* page_id = INVALID_PAGE_ID = 0, all data bytes zero, pin_count = 0 and
\* is_dirty = false; destroy's result equals Page::empty(), and destroying
\* twice equals destroying once.
C4_DestroyGivesEmpty ==
    /\ INVALID_PAGE_ID = 0
    /\ last.op \in {"empty", "destroy"} =>
          /\ page.page_id = INVALID_PAGE_ID
          /\ \A i \in Offsets : Byte(page.data, i) = 0
          /\ page.pin_count = 0
          /\ page.is_dirty = FALSE
          /\ page = Page_empty
    /\ Page_destroy(page) = Page_empty
    /\ Page_destroy(Page_destroy(page)) = Page_destroy(page)

\* A pinned, dirty, written page with a valid identifier has been destroyed.
C4_Witness ==
    /\ last.op = "destroy"
    /\ last.was.page_id # INVALID_PAGE_ID
    /\ last.was.pin_count > 0
    /\ last.was.is_dirty
    /\ \E i \in Offsets : Byte(last.was.data, i) # 0

\* C5: Page::new(page_id) gives a page with exactly that identifier, all
\* 4096 content bytes zero, pin_count = 0 and is_dirty = false.
C5_NewIsZeroed ==
    last.op = "new" =>
        /\ page.page_id = last.id
        /\ Cardinality(Offsets) = 4096
        /\ \A i \in Offsets : Byte(page.data, i) = 0
        /\ page.pin_count = 0
        /\ page.is_dirty = FALSE

\* Page::new has been called with the largest identifier of the model.
C5_Witness ==
    /\ last.op = "new"
    /\ last.id = MaxPageId
    /\ page.page_id = MaxPageId

(***************************************************************************)
(* Claims about HyperLogLog, checked under SpecHLL.                        *)
(***************************************************************************)

\* C6: HyperLogLog::new with a negative n_bits constructs an estimator
\* without failing, and a compute_cardinality that follows leaves
\* get_cardinality() at 0.
C6_NegativeBitsConstructs ==
    (hlast.op # "none" /\ hlast.n < 0) =>
        /\ hstate = "ok"
        /\ hlast.panic = "none"
        /\ hlast.op = "compute_cardinality" => IsZero(get_cardinality)

\* C7: for an estimator built with n_bits >= 0, n_bits = 0 included, add_elem
\* completes for every hash: neither the shift by 64 - n_bits nor the bucket
\* access panics.
C7_AddElemInBounds ==
    (hlast.op = "add_elem" /\ hlast.n >= 0) =>
        /\ hstate = "ok"
        /\ hlast.panic = "none"

\* The largest member of a set of naturals, 0 for the empty set.
SetMax(S) == IF S = {} THEN 0 ELSE CHOOSE x \in S : \A y \in S : y <= x

\* The buckets a set of keys determines: each bucket holds the largest
\* leftmost-one position among the keys that index it.
BucketsOfSet(S, n_bits, len) ==
    [i \in 0..(len - 1) |->
        SetMax({ position_of_leftmost_one(calculate_hash(v)) :
                   v \in {w \in S : BucketIndex(calculate_hash(w), n_bits) = i} })]

C8_Buckets ==
    hstate = "ok" =>
        /\ hll.buckets = BucketsOfSet(added, hll.n_bits, VecLen(hll.buckets))
        /\ \A i \in DOMAIN hll.buckets : hll.buckets[i] \in 0..BITSET_CAPACITY
        /\ hlast.op = "compute_cardinality" =>
              get_cardinality =
                  Estimate(BucketsOfSet(added, hll.n_bits, VecLen(hll.buckets)))

C8_Step ==
    (hstate = "ok" /\ hstate' = "ok" /\ hlast'.op = "add_elem") =>
        /\ \A i \in DOMAIN hll.buckets : hll'.buckets[i] >= hll.buckets[i]
        /\ hlast'.again => hll'.buckets = hll.buckets

\* C8: the buckets after any sequence of add_elem calls are those the set of
\* added keys determines, whatever the order and the multiplicity: adding a
\* key again changes no bucket, no bucket ever decreases, each stays within
\* 0..64, and the estimate compute_cardinality stores is the one that set
\* determines.
C8_BucketsDependOnSetOnly == []C8_Buckets /\ [][C8_Step]_vars

\* Three keys, two of them in the same bucket with different positions, have
\* been added to a two-bucket estimator, the last one for the second time.
C8_Witness ==
    /\ hstate = "ok"
    /\ hll.n_bits = 1
    /\ {2, 3, 4} \subseteq added
    /\ hlast.op = "add_elem"
    /\ hlast.again
    /\ hll.buckets[0] > 1
    /\ hll.buckets[1] > 0

====
